---- MODULE Spec2Model ----
(***************************************************************************)
(* containerfile-ts: field validators, error model, instruction            *)
(* constructors, stage/document aggregators and the renderer.              *)
(*                                                                         *)
(* JavaScript values are tagged records (typeof is the tag t); strings are *)
(* TLA+ strings, so field paths and rendered lines are compared as text.   *)
(***************************************************************************)
EXTENDS Integers, Sequences, FiniteSets, TLC

\* Every record field of the model; records are written with their fields
\* in this (alphabetical) order.
Fields ==
  [a |-> 0, args |-> 0, as |-> 0, chmod |-> 0, chown |-> 0, command |-> 0,
   defaultValue |-> 0, dest |-> 0, end |-> 0, endPort |-> 0, error |-> 0,
   field |-> 0, from |-> 0, image |-> 0, instructions |-> 0, key |-> 0,
   message |-> 0, n |-> 0, name |-> 0, none |-> 0, ok |-> 0, op |-> 0,
   path |-> 0, platform |-> 0, port |-> 0, protocol |-> 0, s |-> 0, src |-> 0,
   stages |-> 0, start |-> 0, t |-> 0, threw |-> 0, type |-> 0, value |-> 0,
   whole |-> 0]

VARIABLES call, ret, shape, items, stageItems, docIn, doc, out, pc

vars == <<call, ret, shape, items, stageItems, docIn, doc, out, pc>>

(***************************************************************************)
(* Bounds of the model.                                                    *)
(***************************************************************************)
\* longest array of instruction Results handed to containerfile
MaxItems == 3
\* longest array of instruction Results handed to stage
MaxStageItems == 2
\* longest array of stage Results handed to containerfile
MaxStages == 2

(***************************************************************************)
(* JavaScript values.                                                      *)
(***************************************************************************)
Str(s) == [s |-> s, t |-> "string"]
\* an integral number n
Num(n) == [n |-> n, t |-> "number", whole |-> TRUE]
\* the non-integral number n + 0.5
Frac(n) == [n |-> n, t |-> "number", whole |-> FALSE]
Null == [t |-> "null"]
Undef == [t |-> "undefined"]
Arr(a) == [a |-> a, t |-> "array"]
\* an object read through its start and end properties (absent = undefined)
Obj(start, end) == [end |-> end, start |-> start, t |-> "object"]

\* a thrown TypeError, as the outcome of a call
Throw == [threw |-> "TypeError"]
\* no call made yet
None == [none |-> TRUE]

IsThrow(r) == "threw" \in DOMAIN r
IsNone(r) == "none" \in DOMAIN r

\* String(v) / template-literal interpolation of a primitive
ToStr(v) ==
  CASE v.t = "string" -> v.s
    [] v.t = "number" -> IF v.whole THEN ToString(v.n) ELSE ToString(v.n) \o ".5"
    [] v.t = "null" -> "null"
    [] v.t = "undefined" -> "undefined"
    [] OTHER -> "[object Object]"

\* value.<name> for name in {start, end}; reading a property of null or
\* undefined throws, of any other non-object gives undefined
CanReadProps(v) == v.t \notin {"null", "undefined"}
GetStart(v) == IF v.t = "object" THEN v.start ELSE Undef
GetEnd(v) == IF v.t = "object" THEN v.end ELSE Undef

(***************************************************************************)
(* Result (neverthrow) and the error model.                                *)
(***************************************************************************)
Ok(v) == [ok |-> TRUE, value |-> v]
Err(e) == [error |-> e, ok |-> FALSE]

IsResult(r) == "ok" \in DOMAIN r
IsOk(r) == IsResult(r) /\ r.ok
IsErr(r) == IsResult(r) /\ ~r.ok

validationError(field, message, value) ==
  [field |-> field, message |-> message, value |-> value]

RECURSIVE Flat(_)
\* Array.prototype.flat() on a list of lists
Flat(ll) == IF ll = <<>> THEN <<>> ELSE Head(ll) \o Flat(Tail(ll))

\* the error of every Err in rs, in order
RECURSIVE SelectErrs(_)
SelectErrs(rs) ==
  IF rs = <<>> THEN <<>>
  ELSE IF IsErr(Head(rs)) THEN <<Head(rs).error>> \o SelectErrs(Tail(rs))
       ELSE SelectErrs(Tail(rs))

\* Result.combine in place of combineWithAllErrors: stops at the first Err
combineFirstError(rs) ==
  IF \A i \in 1..Len(rs) : IsOk(rs[i])
  THEN Ok([i \in 1..Len(rs) |-> rs[i].value])
  ELSE Err(<<Head(SelectErrs(rs))>>)

\* Result.combineWithAllErrors: Ok of all values when every result is Ok,
\* otherwise Err of the list of every Err's error, in order
combineWithAllErrors(rs) ==
  IF \A i \in 1..Len(rs) : IsOk(rs[i])
  THEN Ok([i \in 1..Len(rs) |-> rs[i].value])
  ELSE Err(SelectErrs(rs))

\* result.mapErr((errors) => errors.flat())
FlatErr(r) == IF IsOk(r) THEN r ELSE Err(Flat(r.error))

\* a prefixErrors that joins with a dot whatever the field
prefixErrorsAlwaysDotted(prefix, errors) ==
  [i \in 1..Len(errors) |->
     [errors[i] EXCEPT !.field = prefix \o "." \o errors[i].field]]

prefixErrors(prefix, errors) ==
  [i \in 1..Len(errors) |->
     [errors[i] EXCEPT !.field =
        IF errors[i].field # "" THEN prefix \o "." \o errors[i].field ELSE prefix]]

\* `${field}[${i}]` for the 0-based index i
Indexed(field, i) == field \o "[" \o ToString(i) \o "]"

(***************************************************************************)
(* Field validators (schemas/primitives.ts).                               *)
(***************************************************************************)
PortMin == 0
PortMax == 65535

\* the sample strings that match ImageNamePattern; every other sample
\* string used by the model ("", "NGINX", "has spaces") does not
MatchingImageNames == {"nginx", "node", "node20", "node:18", "node:20", "node:20-alpine"}
ImageNamePatternMatches(s) == s \in MatchingImageNames

IsInteger(v) == v.t = "number" /\ v.whole

\* a port check with the upper bound excluded
PortCheckBelowMax(v) == IsInteger(v) /\ v.n >= PortMin /\ v.n < PortMax

\* CompiledPortValidator.Check(value)
PortCheck(v) == IsInteger(v) /\ v.n >= PortMin /\ v.n <= PortMax

\* the messages of [...Value.Errors(PortSchema, value)]: a non-integer stops
\* at the type error; an integer reports maximum, then minimum
PortSchemaErrors(v) ==
  IF ~IsInteger(v) THEN <<"Expected integer">>
  ELSE (IF v.n > PortMax
        THEN <<"Expected integer to be less or equal to 65535">> ELSE <<>>)
       \o (IF v.n < PortMin
           THEN <<"Expected integer to be greater or equal to 0">> ELSE <<>>)

\* CompiledImageNameValidator.Check(value)
ImageNameCheck(v) == v.t = "string" /\ Len(v.s) >= 1 /\ ImageNamePatternMatches(v.s)

\* the messages of [...Value.Errors(ImageNameSchema, value)]: a non-string
\* stops at the type error; a string reports minLength, then pattern
ImageNameSchemaErrors(v) ==
  IF v.t # "string" THEN <<"Expected string">>
  ELSE (IF Len(v.s) < 1
        THEN <<"Expected string length greater or equal to 1">> ELSE <<>>)
       \o (IF ~ImageNamePatternMatches(v.s)
           THEN <<"Expected string to match the image name pattern">> ELSE <<>>)

\* CompiledDockerPathValidator.Check(value)
DockerPathCheck(v) == v.t = "string" /\ Len(v.s) >= 1

\* the messages of [...Value.Errors(DockerPathSchema, value)]
DockerPathSchemaErrors(v) ==
  IF v.t # "string" THEN <<"Expected string">>
  ELSE IF Len(v.s) < 1 THEN <<"Expected string length greater or equal to 1">>
  ELSE <<>>

\* errors.map((e) => validationError(field, e.message, value))
ErrorsFor(field, messages, value) ==
  [i \in 1..Len(messages) |-> validationError(field, messages[i], value)]

validatePort(value, field) ==
  IF ~PortCheck(value)
  THEN IF PortSchemaErrors(value) = <<>>
       THEN Err(<<validationError(field, "invalid port: must be integer 0-65535", value)>>)
       ELSE Err(ErrorsFor(field, PortSchemaErrors(value), value))
  ELSE Ok(value)

validateImageName(value, field) ==
  IF ~ImageNameCheck(value)
  THEN IF ImageNameSchemaErrors(value) = <<>>
       THEN Err(<<validationError(field, "invalid image name format", value)>>)
       ELSE Err(ErrorsFor(field, ImageNameSchemaErrors(value), value))
  ELSE Ok(value)

validateDockerPath(value, field) ==
  IF ~DockerPathCheck(value)
  THEN IF DockerPathSchemaErrors(value) = <<>>
       THEN Err(<<validationError(field, "path must be non-empty string", value)>>)
       ELSE Err(ErrorsFor(field, DockerPathSchemaErrors(value), value))
  ELSE Ok(value)

\* `invalid port range: start (${value.start}) must be <= end (${value.end})`
RangeMessage(value) ==
  "invalid port range: start (" \o ToStr(value.start)
    \o ") must be <= end (" \o ToStr(value.end) \o ")"

\* a range validator that also rejects start = end
validatePortRangeStrict(value, field) ==
  IF ~CanReadProps(value) THEN Throw
  ELSE
    LET startResult == validatePort(GetStart(value), field \o ".start")
        endResult == validatePort(GetEnd(value), field \o ".end")
        errors == (IF IsErr(startResult) THEN startResult.error ELSE <<>>)
                  \o (IF IsErr(endResult) THEN endResult.error ELSE <<>>)
    IN IF Len(errors) > 0 THEN Err(errors)
       ELSE IF value.start.n >= value.end.n
            THEN Err(<<validationError(field, RangeMessage(value), value)>>)
            ELSE Ok([end |-> value.end, start |-> value.start])

\* value.start on null or undefined throws before anything is validated
validatePortRange(value, field) ==
  IF ~CanReadProps(value) THEN Throw
  ELSE
    LET startResult == validatePort(GetStart(value), field \o ".start")
        endResult == validatePort(GetEnd(value), field \o ".end")
        errors == (IF IsErr(startResult) THEN startResult.error ELSE <<>>)
                  \o (IF IsErr(endResult) THEN endResult.error ELSE <<>>)
    IN IF Len(errors) > 0 THEN Err(errors)
       ELSE IF value.start.n > value.end.n
            THEN Err(<<validationError(field, RangeMessage(value), value)>>)
            ELSE Ok([end |-> value.end, start |-> value.start])

\* The four validators below are exported by schemas/index.ts but their
\* bodies are not part of the available sources; they follow the written
\* description of each (section 4.1) and the tests in primitives.test.ts.
validateNonEmptyString(value, field) ==
  IF value.t = "string" /\ Len(value.s) >= 1 THEN Ok(value)
  ELSE Err(<<validationError(field, "must be a non-empty string", value)>>)

validateString(value, field) ==
  IF value.t = "string" THEN Ok(value)
  ELSE Err(<<validationError(field, "must be a string", value)>>)

\* a string-array validator that stops at the first bad element
validateStringArrayFirstOnly(values, field) ==
  IF Len(values.a) = 0
  THEN Err(<<validationError(field, "must have at least one element", values)>>)
  ELSE FlatErr(combineFirstError(
         [i \in 1..Len(values.a) |->
            validateNonEmptyString(values.a[i], Indexed(field, i - 1))]))

validateStringArray(values, field) ==
  IF Len(values.a) = 0
  THEN Err(<<validationError(field, "must have at least one element", values)>>)
  ELSE FlatErr(combineWithAllErrors(
         [i \in 1..Len(values.a) |->
            validateNonEmptyString(values.a[i], Indexed(field, i - 1))]))

\* validator is one of the validators above, passed by name
ApplyValidator(validator, value, field) ==
  CASE validator = "validateNonEmptyString" -> validateNonEmptyString(value, field)
    [] validator = "validateString" -> validateString(value, field)
    [] validator = "validateDockerPath" -> validateDockerPath(value, field)
    [] validator = "validateImageName" -> validateImageName(value, field)
    [] validator = "validatePort" -> validatePort(value, field)

validateOptional(value, validator, field) ==
  IF value = Undef THEN Ok(Null) ELSE ApplyValidator(validator, value, field)

\* Array.isArray
isReadonlyArray(v) == v.t = "array"

(***************************************************************************)
(* Instruction constructors (instructions.ts).  An options bag is a record *)
(* of its option values, undefined for an option that is not supplied.     *)
(***************************************************************************)
\* typeof v
TypeOf(v) ==
  CASE v.t \in {"null", "object", "array"} -> "object"
    [] OTHER -> v.t

\* v ?? null
OrNull(v) == IF v \in {Null, Undef} THEN Null ELSE v

NoOptions == [as |-> Undef, chmod |-> Undef, chown |-> Undef, defaultValue |-> Undef,
              from |-> Undef, platform |-> Undef, protocol |-> Undef]

\* a src validator that reports every element under the field itself
validateDockerPathArrayUnindexed(src, field) ==
  IF TypeOf(src) = "string"
  THEN LET r == validateDockerPath(src, field)
       IN IF IsOk(r) THEN Ok(Arr(<<r.value>>)) ELSE r
  ELSE IF ~isReadonlyArray(src)
  THEN Err(<<validationError(field, "must be a string or array of strings", src)>>)
  ELSE IF Len(src.a) = 0
  THEN Err(<<validationError(field, "must have at least one source", src)>>)
  ELSE LET r == FlatErr(combineWithAllErrors(
                  [i \in 1..Len(src.a) |-> validateDockerPath(src.a[i], field)]))
       IN IF IsOk(r) THEN Ok(Arr(r.value)) ELSE r

validateDockerPathArray(src, field) ==
  IF TypeOf(src) = "string"
  THEN LET r == validateDockerPath(src, Indexed(field, 0))
       IN IF IsOk(r) THEN Ok(Arr(<<r.value>>)) ELSE r
  ELSE IF ~isReadonlyArray(src)
  THEN Err(<<validationError(field, "must be a string or array of strings", src)>>)
  ELSE IF Len(src.a) = 0
  THEN Err(<<validationError(field, "must have at least one source", src)>>)
  ELSE LET r == FlatErr(combineWithAllErrors(
                  [i \in 1..Len(src.a) |->
                     validateDockerPath(src.a[i], Indexed(field, i - 1))]))
       IN IF IsOk(r) THEN Ok(Arr(r.value)) ELSE r

\* a from that takes an empty option string for an option not supplied
fromEmptyAsAbsent(image, options) ==
  LET orAbsent(v) == IF v = Str("") THEN Undef ELSE v
      r == FlatErr(combineWithAllErrors(<<
             validateImageName(image, "image"),
             validateOptional(orAbsent(options.as), "validateNonEmptyString", "as"),
             validateOptional(orAbsent(options.platform), "validateNonEmptyString",
                              "platform")>>))
  IN IF IsErr(r) THEN r
     ELSE Ok([as |-> r.value[2], image |-> r.value[1], platform |-> r.value[3],
              type |-> "FROM"])

from(image, options) ==
  LET r == FlatErr(combineWithAllErrors(<<
             validateImageName(image, "image"),
             validateOptional(options.as, "validateNonEmptyString", "as"),
             validateOptional(options.platform, "validateNonEmptyString", "platform")>>))
  IN IF IsErr(r) THEN r
     ELSE Ok([as |-> r.value[2], image |-> r.value[1], platform |-> r.value[3],
              type |-> "FROM"])

\* run, cmd and entrypoint share one body up to the type tag
CommandInstruction(type, command) ==
  IF TypeOf(command) = "string"
  THEN LET r == validateNonEmptyString(command, "command")
       IN IF IsErr(r) THEN r ELSE Ok([command |-> command, type |-> type])
  ELSE LET r == validateStringArray(command, "command")
       IN IF IsErr(r) THEN r ELSE Ok([command |-> Arr(r.value), type |-> type])

run(command) == CommandInstruction("RUN", command)

copy(src, dest, options) ==
  LET r == FlatErr(combineWithAllErrors(<<
             validateDockerPathArray(src, "src"),
             validateDockerPath(dest, "dest"),
             validateOptional(options.from, "validateNonEmptyString", "from"),
             validateOptional(options.chown, "validateNonEmptyString", "chown"),
             validateOptional(options.chmod, "validateNonEmptyString", "chmod")>>))
  IN IF IsErr(r) THEN r
     ELSE Ok([chmod |-> r.value[5], chown |-> r.value[4], dest |-> r.value[2],
              from |-> r.value[3], src |-> r.value[1], type |-> "COPY"])

add(src, dest, options) ==
  LET r == FlatErr(combineWithAllErrors(<<
             validateDockerPathArray(src, "src"),
             validateDockerPath(dest, "dest"),
             validateOptional(options.chown, "validateNonEmptyString", "chown"),
             validateOptional(options.chmod, "validateNonEmptyString", "chmod")>>))
  IN IF IsErr(r) THEN r
     ELSE Ok([chmod |-> r.value[4], chown |-> r.value[3], dest |-> r.value[2],
              src |-> r.value[1], type |-> "ADD"])

workdir(path) ==
  LET r == validateDockerPath(path, "path")
  IN IF IsErr(r) THEN r ELSE Ok([path |-> r.value, type |-> "WORKDIR"])

\* env and label with the value required to be non-empty
KeyValueInstructionNonEmptyValue(type, key, value) ==
  LET r == FlatErr(combineWithAllErrors(<<
             validateNonEmptyString(key, "key"),
             validateNonEmptyString(value, "value")>>))
  IN IF IsErr(r) THEN r
     ELSE Ok([key |-> r.value[1], type |-> type, value |-> r.value[2]])

\* env and label share one body up to the type tag
KeyValueInstruction(type, key, value) ==
  LET r == FlatErr(combineWithAllErrors(<<
             validateNonEmptyString(key, "key"),
             validateString(value, "value")>>))
  IN IF IsErr(r) THEN r
     ELSE Ok([key |-> r.value[1], type |-> type, value |-> r.value[2]])

env(key, value) == KeyValueInstruction("ENV", key, value)

\* an expose that takes port 0 for a missing port
exposeNonZero(port, options) ==
  IF TypeOf(port) = "number"
  THEN LET r == IF port = Num(0)
                THEN Err(<<validationError("port", "port is required", port)>>)
                ELSE validatePort(port, "port")
       IN IF IsErr(r) THEN r
          ELSE Ok([endPort |-> Null, port |-> port,
                   protocol |-> OrNull(options.protocol), type |-> "EXPOSE"])
  ELSE IF port = Null \/ TypeOf(port) # "object"
  THEN Err(<<validationError("port", "must be a number or port range object", port)>>)
  ELSE LET r == validatePortRange(port, "port")
       IN IF IsErr(r) THEN r
          ELSE Ok([endPort |-> r.value.end, port |-> r.value.start,
                   protocol |-> OrNull(options.protocol), type |-> "EXPOSE"])

\* an expose that validates only the start of a range
exposeStartOnly(port, options) ==
  IF TypeOf(port) = "number"
  THEN LET r == validatePort(port, "port")
       IN IF IsErr(r) THEN r
          ELSE Ok([endPort |-> Null, port |-> port,
                   protocol |-> OrNull(options.protocol), type |-> "EXPOSE"])
  ELSE IF port = Null \/ TypeOf(port) # "object"
  THEN Err(<<validationError("port", "must be a number or port range object", port)>>)
  ELSE LET r == validatePort(GetStart(port), "port.start")
       IN IF IsErr(r) THEN r
          ELSE Ok([endPort |-> GetEnd(port), port |-> GetStart(port),
                   protocol |-> OrNull(options.protocol), type |-> "EXPOSE"])

\* an expose without the defensive type check before the range validator
exposeNoTypeGuard(port, options) ==
  IF TypeOf(port) = "number"
  THEN LET r == validatePort(port, "port")
       IN IF IsErr(r) THEN r
          ELSE Ok([endPort |-> Null, port |-> port,
                   protocol |-> OrNull(options.protocol), type |-> "EXPOSE"])
  ELSE LET r == validatePortRange(port, "port")
       IN IF ~IsOk(r) THEN r
          ELSE Ok([endPort |-> r.value.end, port |-> r.value.start,
                   protocol |-> OrNull(options.protocol), type |-> "EXPOSE"])

expose(port, options) ==
  IF TypeOf(port) = "number"
  THEN LET r == validatePort(port, "port")
       IN IF IsErr(r) THEN r
          ELSE Ok([endPort |-> Null, port |-> port,
                   protocol |-> OrNull(options.protocol), type |-> "EXPOSE"])
  ELSE IF port = Null \/ TypeOf(port) # "object"
  THEN Err(<<validationError("port", "must be a number or port range object", port)>>)
  ELSE LET r == validatePortRange(port, "port")
       IN IF IsErr(r) THEN r
          ELSE Ok([endPort |-> r.value.end, port |-> r.value.start,
                   protocol |-> OrNull(options.protocol), type |-> "EXPOSE"])

cmd(command) == CommandInstruction("CMD", command)

entrypoint(command) == CommandInstruction("ENTRYPOINT", command)

arg(name, options) ==
  LET r == FlatErr(combineWithAllErrors(<<
             validateNonEmptyString(name, "name"),
             validateOptional(options.defaultValue, "validateNonEmptyString",
                              "defaultValue")>>))
  IN IF IsErr(r) THEN r
     ELSE Ok([defaultValue |-> r.value[2], name |-> r.value[1], type |-> "ARG"])

label(key, value) == KeyValueInstruction("LABEL", key, value)

(***************************************************************************)
(* Stage aggregator (stage.ts) and document aggregator (instructions.ts).  *)
(* An array of Results is a sequence; where the code stores or tests the   *)
(* array itself it is the JavaScript value Arr(sequence).                  *)
(***************************************************************************)
\* the values of the Ok results of rs, last pushed first
OkValuesNewestFirst(rs) ==
  LET idx == {i \in 1..Len(rs) : IsOk(rs[i])}
      kth(k) == CHOOSE i \in idx : Cardinality({j \in idx : j > i}) = k - 1
  IN [k \in 1..Cardinality(idx) |-> rs[kth(k)].value]

\* the values pushed for the Ok results of rs, in order
RECURSIVE OkValues(_)
OkValues(rs) ==
  IF rs = <<>> THEN <<>>
  ELSE IF IsOk(Head(rs)) THEN <<Head(rs).value>> \o OkValues(Tail(rs))
       ELSE OkValues(Tail(rs))

\* the same with the position counted among the failed results only
PrefixedErrorsAmongFailed(container, rs) ==
  Flat([i \in 1..Len(rs) |->
          IF IsErr(rs[i])
          THEN prefixErrors(Indexed(container,
                                    Cardinality({j \in 1..(i - 1) : IsErr(rs[j])})),
                            rs[i].error)
          ELSE <<>>])

\* the errors pushed for the Err results of rs, in order, each list prefixed
\* `${container}[${i}]` with the 0-based position i of its result in rs
PrefixedErrors(container, rs) ==
  Flat([i \in 1..Len(rs) |->
          IF IsErr(rs[i]) THEN prefixErrors(Indexed(container, i - 1), rs[i].error)
          ELSE <<>>])

\* a stage aggregator that returns at the first problem it meets
stageFirstProblem(name, instructions) ==
  LET nameResult == validateNonEmptyString(name, "name")
      errors == PrefixedErrors("instructions", instructions)
  IN IF IsErr(nameResult) THEN nameResult
     ELSE IF Len(errors) > 0 THEN Err(errors)
     ELSE Ok([instructions |-> OkValues(instructions), name |-> name])

\* a stage aggregator without the check for an empty list
stageAllowEmpty(name, instructions) ==
  LET nameResult == validateNonEmptyString(name, "name")
      errors == (IF IsErr(nameResult) THEN nameResult.error ELSE <<>>)
                \o PrefixedErrors("instructions", instructions)
  IN IF Len(errors) > 0 THEN Err(errors)
     ELSE Ok([instructions |-> OkValues(instructions), name |-> name])

stage(name, instructions) ==
  LET nameResult == validateNonEmptyString(name, "name")
      nameErrors == IF IsErr(nameResult) THEN nameResult.error ELSE <<>>
      emptyErrors ==
        IF Len(instructions) = 0
        THEN <<validationError("instructions", "stage must have at least one instruction",
                               Arr(instructions))>>
        ELSE <<>>
      errors == nameErrors \o emptyErrors \o PrefixedErrors("instructions", instructions)
      validInstructions == OkValues(instructions)
  IN IF Len(errors) > 0 THEN Err(errors)
     ELSE Ok([instructions |-> validInstructions, name |-> name])

\* the combinator form of the same aggregator (errors.ts)
validateInstructionResults(instructions) ==
  IF ~isReadonlyArray(instructions)
  THEN Err(<<validationError("instructions", "must be an array of instruction Results",
                             instructions)>>)
  ELSE IF Len(instructions.a) = 0
  THEN Err(<<validationError("instructions", "stage must have at least one instruction",
                             instructions)>>)
  ELSE FlatErr(combineWithAllErrors(
         [i \in 1..Len(instructions.a) |->
            IF IsErr(instructions.a[i])
            THEN Err(prefixErrors(Indexed("instructions", i - 1), instructions.a[i].error))
            ELSE instructions.a[i]]))

stageCombined(name, instructions) ==
  LET r == FlatErr(combineWithAllErrors(<<
             validateNonEmptyString(name, "name"),
             validateInstructionResults(instructions)>>))
  IN IF IsErr(r) THEN r
     ELSE Ok([instructions |-> r.value[2], name |-> r.value[1]])

\* the position of the first Ok result of arr, 0 when there is none
FirstOk(arr) ==
  IF \E i \in 1..Len(arr) : IsOk(arr[i])
  THEN CHOOSE i \in 1..Len(arr) : IsOk(arr[i]) /\ \A j \in 1..(i - 1) : ~IsOk(arr[j])
  ELSE 0

\* a shape test that takes an all-failed array for the stage shape
isInstructionArrayStageDefault(arr) ==
  IF Len(arr) = 0 THEN TRUE
  ELSE IF FirstOk(arr) # 0 THEN "type" \in DOMAIN arr[FirstOk(arr)].value
  ELSE FALSE

\* a shape test that looks at the element at index 0 only
isInstructionArrayHeadOnly(arr) ==
  IF Len(arr) = 0 THEN TRUE
  ELSE IF IsOk(arr[1]) THEN "type" \in DOMAIN arr[1].value
  ELSE TRUE

isInstructionArray(arr) ==
  IF Len(arr) = 0 THEN TRUE
  ELSE IF FirstOk(arr) # 0 THEN "type" \in DOMAIN arr[FirstOk(arr)].value
  ELSE TRUE

containerfile(itemsArg) ==
  IF ~isReadonlyArray(itemsArg)
  THEN Err(<<validationError("items", "must be an array of instruction or stage Results",
                             itemsArg)>>)
  ELSE IF Len(itemsArg.a) = 0
  THEN Err(<<validationError("items",
                             "containerfile must have at least one instruction or stage",
                             itemsArg)>>)
  ELSE IF isInstructionArray(itemsArg.a)
  THEN LET errors == PrefixedErrors("instructions", itemsArg.a)
       IN IF Len(errors) > 0 THEN Err(errors)
          ELSE Ok([instructions |-> OkValues(itemsArg.a)])
  ELSE LET errors == PrefixedErrors("stages", itemsArg.a)
       IN IF Len(errors) > 0 THEN Err(errors)
          ELSE Ok([stages |-> OkValues(itemsArg.a)])

(***************************************************************************)
(* Renderer (the render module in index.ts).  A renderer returns the       *)
(* string Str(line) or throws.                                             *)
(***************************************************************************)
\* Array.prototype.join over a list of strings
RECURSIVE Join(_, _)
Join(strs, sep) ==
  IF strs = <<>> THEN ""
  ELSE IF Len(strs) = 1 THEN strs[1]
  ELSE strs[1] \o sep \o Join(Tail(strs), sep)

\* JSON.stringify of a string free of quotes, backslashes and control
\* characters (all sample strings are): the string in double quotes
JSONStringify(v) == "\"" \o v.s \o "\""

\* arr.map is not a function unless arr is an array
formatArray(arr) ==
  IF ~isReadonlyArray(arr) THEN Throw
  ELSE Str("[" \o Join([i \in 1..Len(arr.a) |-> JSONStringify(arr.a[i])], ", ") \o "]")

\* "<keyword> " + rendered, propagating a throw
Prefixed(keyword, rendered) ==
  IF IsThrow(rendered) THEN Throw ELSE Str(keyword \o " " \o rendered.s)

renderFrom(instruction) ==
  Str("FROM"
      \o (IF instruction.platform # Null
          THEN " --platform=" \o ToStr(instruction.platform) ELSE "")
      \o " " \o ToStr(instruction.image)
      \o (IF instruction.as # Null THEN " AS " \o ToStr(instruction.as) ELSE ""))

\* a RUN renderer that forces the array form
renderRunAlwaysArray(instruction) ==
  IF TypeOf(instruction.command) = "string"
  THEN Prefixed("RUN", formatArray(Arr(<<instruction.command>>)))
  ELSE Prefixed("RUN", formatArray(instruction.command))

renderRun(instruction) ==
  IF TypeOf(instruction.command) = "string"
  THEN Str("RUN " \o instruction.command.s)
  ELSE Prefixed("RUN", formatArray(instruction.command))

\* typeof src === "string" ? src : src.join(" ")
SrcStr(src) ==
  IF TypeOf(src) = "string" THEN src.s
  ELSE Join([i \in 1..Len(src.a) |-> ToStr(src.a[i])], " ")

\* a COPY renderer that emits --chmod before --chown
renderCopyChmodFirst(instruction) ==
  Str("COPY"
      \o (IF instruction.from # Null THEN " --from=" \o ToStr(instruction.from) ELSE "")
      \o (IF instruction.chmod # Null THEN " --chmod=" \o ToStr(instruction.chmod) ELSE "")
      \o (IF instruction.chown # Null THEN " --chown=" \o ToStr(instruction.chown) ELSE "")
      \o " " \o SrcStr(instruction.src) \o " " \o ToStr(instruction.dest))

renderCopy(instruction) ==
  Str("COPY"
      \o (IF instruction.from # Null THEN " --from=" \o ToStr(instruction.from) ELSE "")
      \o (IF instruction.chown # Null THEN " --chown=" \o ToStr(instruction.chown) ELSE "")
      \o (IF instruction.chmod # Null THEN " --chmod=" \o ToStr(instruction.chmod) ELSE "")
      \o " " \o SrcStr(instruction.src) \o " " \o ToStr(instruction.dest))

renderAdd(instruction) ==
  Str("ADD"
      \o (IF instruction.chown # Null THEN " --chown=" \o ToStr(instruction.chown) ELSE "")
      \o (IF instruction.chmod # Null THEN " --chmod=" \o ToStr(instruction.chmod) ELSE "")
      \o " " \o SrcStr(instruction.src) \o " " \o ToStr(instruction.dest))

renderWorkdir(instruction) == Str("WORKDIR " \o ToStr(instruction.path))

renderEnv(instruction) ==
  Str("ENV " \o ToStr(instruction.key) \o "=" \o ToStr(instruction.value))

renderExpose(instruction) ==
  LET protocolSuffix ==
        IF instruction.protocol = Str("tcp") THEN ""
        ELSE "/" \o ToStr(instruction.protocol)
      portStr ==
        IF TypeOf(instruction.port) = "number" THEN ToStr(instruction.port)
        ELSE ToStr(GetStart(instruction.port)) \o "-" \o ToStr(GetEnd(instruction.port))
  IN Str("EXPOSE " \o portStr \o protocolSuffix)

renderCmd(instruction) == Prefixed("CMD", formatArray(instruction.command))

renderEntrypoint(instruction) == Prefixed("ENTRYPOINT", formatArray(instruction.command))

renderArg(instruction) ==
  IF instruction.defaultValue # Null
  THEN Str("ARG " \o ToStr(instruction.name) \o "=" \o ToStr(instruction.defaultValue))
  ELSE Str("ARG " \o ToStr(instruction.name))

renderLabel(instruction) ==
  Str("LABEL " \o ToStr(instruction.key) \o "=\"" \o ToStr(instruction.value) \o "\"")

\* the dispatch table renderers[instruction.type]
renderInstruction(instruction) ==
  IF "type" \notin DOMAIN instruction THEN Throw
  ELSE
  CASE instruction.type = "FROM" -> renderFrom(instruction)
    [] instruction.type = "RUN" -> renderRun(instruction)
    [] instruction.type = "COPY" -> renderCopy(instruction)
    [] instruction.type = "ADD" -> renderAdd(instruction)
    [] instruction.type = "WORKDIR" -> renderWorkdir(instruction)
    [] instruction.type = "ENV" -> renderEnv(instruction)
    [] instruction.type = "EXPOSE" -> renderExpose(instruction)
    [] instruction.type = "CMD" -> renderCmd(instruction)
    [] instruction.type = "ENTRYPOINT" -> renderEntrypoint(instruction)
    [] instruction.type = "ARG" -> renderArg(instruction)
    [] instruction.type = "LABEL" -> renderLabel(instruction)
    [] OTHER -> Throw

\* a join that ends every element, the last one too, with the separator
JoinRenderedTerminated(rendered, sep) ==
  IF \E i \in 1..Len(rendered) : IsThrow(rendered[i]) THEN Throw
  ELSE Str(Join([i \in 1..Len(rendered) |-> rendered[i].s \o sep], ""))

\* instructions.map(renderInstruction).join(sep): a throwing element aborts
\* the map
JoinRendered(rendered, sep) ==
  IF \E i \in 1..Len(rendered) : IsThrow(rendered[i]) THEN Throw
  ELSE Str(Join([i \in 1..Len(rendered) |-> rendered[i].s], sep))

\* a stage renderer that starts the block with a line naming the stage
renderStageWithHeader(stageToRender) ==
  IF "instructions" \notin DOMAIN stageToRender THEN Throw
  ELSE
  JoinRendered(<<Str("# stage " \o stageToRender.name.s)>>
               \o [i \in 1..Len(stageToRender.instructions) |->
                     renderInstruction(stageToRender.instructions[i])], "\n")

renderStage(stageToRender) ==
  IF "instructions" \notin DOMAIN stageToRender THEN Throw
  ELSE
  JoinRendered([i \in 1..Len(stageToRender.instructions) |->
                  renderInstruction(stageToRender.instructions[i])], "\n")

isSingleStage(cf) == "instructions" \in DOMAIN cf

render(cf) ==
  IF isSingleStage(cf)
  THEN JoinRendered([i \in 1..Len(cf.instructions) |->
                       renderInstruction(cf.instructions[i])], "\n")
  ELSE JoinRendered([i \in 1..Len(cf.stages) |-> renderStage(cf.stages[i])], "\n\n")

(***************************************************************************)
(* Inputs.                                                                 *)
(***************************************************************************)
\* values of every fundamental type, for the validators
AnyValues ==
  {Null, Undef, Str(""), Str("nginx"), Str("NGINX"), Str("80"), Str(" "),
   Num(-1), Num(0), Num(80), Num(65535), Num(65536), Frac(80),
   Obj(Num(80), Num(80)), Obj(Num(100), Num(50)), Obj(Num(-1), Num(70000)),
   Obj(Undef, Undef), Arr(<<>>), Arr(<<Str("a")>>)}

RangeValues ==
  AnyValues \cup {Obj(Num(5000), Num(5010)), Obj(Num(0), Num(65535)),
                  Obj(Str("80"), Num(90)), Obj(Num(80), Frac(90))}

StringArrays ==
  {Arr(<<>>), Arr(<<Str("single")>>), Arr(<<Str("node"), Str("index.js")>>),
   Arr(<<Str("ok"), Str(""), Str("ok")>>), Arr(<<Str(""), Str(""), Str("")>>),
   Arr(<<Str("a"), Null>>)}

FieldNames == {"port", "customField"}

CommandInputs == {Str(""), Str("npm start")} \cup StringArrays

ImageInputs == {Str("nginx"), Str("node20"), Str("node:18"), Str(""), Str("NGINX"), Null}

SrcInputs ==
  {Str(""), Str("a.txt"), Arr(<<>>), Arr(<<Str("a.txt"), Str("")>>),
   Arr(<<Str("a.txt"), Str("b.txt")>>), Arr(<<Str(""), Str("")>>), Null, Num(1)}

PathInputs == {Str(""), Str("/dest/")}

\* an optional string option: not supplied, empty, non-empty
OptionInputs(nonEmpty) == {Undef, Str(""), Str(nonEmpty)}

PortInputs ==
  {Num(-1), Num(0), Num(80), Num(8080), Num(65535), Num(65536), Frac(80),
   Null, Undef, Str("80"), Arr(<<>>),
   Obj(Num(5000), Num(5010)), Obj(Num(80), Num(80)), Obj(Num(100), Num(50)),
   Obj(Num(-1), Num(70000)), Obj(Undef, Undef)}

\* the three supported protocols, none, and one a caller can pass untyped
ProtocolInputs == {Undef, Str("tcp"), Str("udp"), Str("sctp"), Str("http")}

KeyInputs == {Str(""), Str("NODE_ENV")}

ValueInputs == {Str(""), Str("production"), Null, Num(1)}

StageNames == {Str(""), Str("builder")}

(***************************************************************************)
(* Direct calls of the validators: the call and its outcome are recorded.  *)
(***************************************************************************)
Idle ==
  /\ shape = "none"
  /\ items = <<>>
  /\ stageItems = <<>>
  /\ docIn = None
  /\ doc = None
  /\ out = None
  /\ pc = "build"

InitCalls ==
  /\ call = None
  /\ ret = None
  /\ Idle

Record(op, args, result) ==
  /\ call' = [args |-> args, op |-> op]
  /\ ret' = result
  /\ UNCHANGED <<shape, items, stageItems, docIn, doc, out, pc>>

CallValidatePort ==
  \E v \in AnyValues, f \in FieldNames :
    Record("validatePort", <<v, Str(f)>>, validatePort(v, f))

CallValidatePortRange ==
  \E v \in RangeValues, f \in FieldNames :
    Record("validatePortRange", <<v, Str(f)>>, validatePortRange(v, f))

CallValidateImageName ==
  \E v \in AnyValues, f \in FieldNames :
    Record("validateImageName", <<v, Str(f)>>, validateImageName(v, f))

CallValidateDockerPath ==
  \E v \in AnyValues, f \in FieldNames :
    Record("validateDockerPath", <<v, Str(f)>>, validateDockerPath(v, f))

CallValidateNonEmptyString ==
  \E v \in AnyValues, f \in FieldNames :
    Record("validateNonEmptyString", <<v, Str(f)>>, validateNonEmptyString(v, f))

CallValidateString ==
  \E v \in AnyValues, f \in FieldNames :
    Record("validateString", <<v, Str(f)>>, validateString(v, f))

CallValidateStringArray ==
  \E v \in StringArrays, f \in FieldNames :
    Record("validateStringArray", <<v, Str(f)>>, validateStringArray(v, f))

NextValidators ==
  \/ CallValidatePort
  \/ CallValidatePortRange
  \/ CallValidateImageName
  \/ CallValidateDockerPath
  \/ CallValidateNonEmptyString
  \/ CallValidateString
  \/ CallValidateStringArray

SpecValidators == InitCalls /\ [][NextValidators]_vars

(***************************************************************************)
(* Direct calls of the eleven constructors.                                *)
(***************************************************************************)
CallFrom ==
  \E image \in ImageInputs, as \in OptionInputs("builder"),
     platform \in OptionInputs("linux/amd64") :
    LET options == [NoOptions EXCEPT !.as = as, !.platform = platform]
    IN Record("from", <<image, options>>, from(image, options))

CallRun ==
  \E command \in CommandInputs : Record("run", <<command>>, run(command))

CallCopy ==
  \E src \in SrcInputs, dest \in PathInputs, fromOpt \in OptionInputs("builder"),
     chown \in OptionInputs("node:node"), chmod \in OptionInputs("644") :
    LET options == [NoOptions EXCEPT !.from = fromOpt, !.chown = chown, !.chmod = chmod]
    IN Record("copy", <<src, dest, options>>, copy(src, dest, options))

CallAdd ==
  \E src \in SrcInputs, dest \in PathInputs,
     chown \in OptionInputs("node:node"), chmod \in OptionInputs("755") :
    LET options == [NoOptions EXCEPT !.chown = chown, !.chmod = chmod]
    IN Record("add", <<src, dest, options>>, add(src, dest, options))

CallWorkdir ==
  \E path \in PathInputs \cup {Null} : Record("workdir", <<path>>, workdir(path))

CallEnv ==
  \E key \in KeyInputs, value \in ValueInputs :
    Record("env", <<key, value>>, env(key, value))

CallExpose ==
  \E port \in PortInputs, protocol \in ProtocolInputs :
    LET options == [NoOptions EXCEPT !.protocol = protocol]
    IN Record("expose", <<port, options>>, expose(port, options))

CallCmd ==
  \E command \in CommandInputs : Record("cmd", <<command>>, cmd(command))

CallEntrypoint ==
  \E command \in CommandInputs : Record("entrypoint", <<command>>, entrypoint(command))

CallArg ==
  \E name \in KeyInputs, defaultValue \in OptionInputs("18") :
    LET options == [NoOptions EXCEPT !.defaultValue = defaultValue]
    IN Record("arg", <<name, options>>, arg(name, options))

CallLabel ==
  \E key \in KeyInputs, value \in ValueInputs :
    Record("label", <<key, value>>, label(key, value))

\* renderInstruction(instruction) on the instruction a constructor returned
CallRenderInstruction ==
  /\ call # None
  /\ IsOk(ret)
  /\ Record("renderInstruction", <<ret.value>>, renderInstruction(ret.value))

NextConstructors ==
  \/ CallFrom
  \/ CallRun
  \/ CallCopy
  \/ CallAdd
  \/ CallWorkdir
  \/ CallEnv
  \/ CallExpose
  \/ CallCmd
  \/ CallEntrypoint
  \/ CallArg
  \/ CallLabel
  \/ CallRenderInstruction

SpecConstructors == InitCalls /\ [][NextConstructors]_vars

(***************************************************************************)
(* The authoring pipeline: a caller collects constructor Results in an     *)
(* array, groups arrays into stages for a multi-stage document, hands the  *)
(* array to containerfile and renders the document it gets back.           *)
(***************************************************************************)
WithOptions(name, value) == [NoOptions EXCEPT ![name] = value]

\* the constructor calls a caller makes, per document shape
FromCalls(sh) ==
  IF sh = "single" THEN {from(Str("node:20-alpine"), NoOptions), from(Str(""), NoOptions)}
  ELSE {from(Str("node:20"), WithOptions("as", Str("builder")))}
RunCalls(sh) == IF sh = "single" THEN {run(Str("npm ci"))} ELSE {}
CopyCalls(sh) == {copy(Str(""), Str(""), WithOptions("from", Str("builder")))}
AddCalls(sh) ==
  IF sh = "single" THEN {add(Str("config.tar.gz"), Str("/app/config/"), NoOptions)}
  ELSE {}
WorkdirCalls(sh) == IF sh = "single" THEN {workdir(Str("/app"))} ELSE {}
EnvCalls(sh) == IF sh = "single" THEN {env(Str("NODE_ENV"), Str(""))} ELSE {}
ExposeCalls(sh) ==
  IF sh = "single"
  THEN {expose(Num(8080), NoOptions),
        expose(Num(8080), WithOptions("protocol", Str("tcp"))),
        expose(Obj(Num(5000), Num(5010)), WithOptions("protocol", Str("udp")))}
  ELSE {}
CmdCalls(sh) ==
  IF sh = "single"
  THEN {cmd(Str("npm start")), cmd(Arr(<<Str("node"), Str("index.js")>>))}
  ELSE {}
EntrypointCalls(sh) ==
  IF sh = "single"
  THEN {entrypoint(Str("/entrypoint.sh"))}
  ELSE {}
ArgCalls(sh) ==
  IF sh = "single" THEN {arg(Str("NODE_VERSION"), WithOptions("defaultValue", Str("18")))}
  ELSE {}
LabelCalls(sh) == IF sh = "single" THEN {label(Str("version"), Str("1.0.0"))} ELSE {}

Init ==
  /\ call = None
  /\ ret = None
  /\ shape \in {"single", "multi"}
  /\ items = <<>>
  /\ stageItems = <<>>
  /\ docIn = None
  /\ doc = None
  /\ out = None
  /\ pc = "build"

\* the caller appends a constructor's Result to the array being collected
Push(result) ==
  /\ pc = "build"
  /\ IF shape = "single" THEN Len(items) < MaxItems
     ELSE Len(items) < MaxStageItems /\ Len(stageItems) < MaxStages
  /\ items' = Append(items, result)
  /\ UNCHANGED <<call, ret, shape, stageItems, docIn, doc, out, pc>>

PushFrom == \E r \in FromCalls(shape) : Push(r)
PushRun == \E r \in RunCalls(shape) : Push(r)
PushCopy == \E r \in CopyCalls(shape) : Push(r)
PushAdd == \E r \in AddCalls(shape) : Push(r)
PushWorkdir == \E r \in WorkdirCalls(shape) : Push(r)
PushEnv == \E r \in EnvCalls(shape) : Push(r)
PushExpose == \E r \in ExposeCalls(shape) : Push(r)
PushCmd == \E r \in CmdCalls(shape) : Push(r)
PushEntrypoint == \E r \in EntrypointCalls(shape) : Push(r)
PushArg == \E r \in ArgCalls(shape) : Push(r)
PushLabel == \E r \in LabelCalls(shape) : Push(r)

\* stage(name, items)
CallStage ==
  /\ pc = "build"
  /\ shape = "multi"
  /\ Len(stageItems) < MaxStages
  /\ \E name \in StageNames :
       /\ call' = [args |-> <<name, Arr(items)>>, op |-> "stage"]
       /\ ret' = stage(name, items)
  /\ pc' = "staged"
  /\ UNCHANGED <<shape, items, stageItems, docIn, doc, out>>

\* the caller appends the stage Result to the array of stages and starts
\* collecting the next stage's instructions
PushStage ==
  /\ pc = "staged"
  /\ stageItems' = Append(stageItems, ret)
  /\ items' = <<>>
  /\ call' = None
  /\ ret' = None
  /\ pc' = "build"
  /\ UNCHANGED <<shape, docIn, doc, out>>

\* containerfile(items) for a single-stage document, containerfile(stages)
\* for a multi-stage one
CallContainerfile ==
  /\ pc = "build"
  /\ IF shape = "single" THEN docIn' = Arr(items)
     ELSE items = <<>> /\ docIn' = Arr(stageItems)
  /\ doc' = containerfile(docIn')
  /\ pc' = "assembled"
  /\ UNCHANGED <<call, ret, shape, items, stageItems, out>>

\* render(document) on the document of an Ok result
CallRender ==
  /\ pc = "assembled"
  /\ IsOk(doc)
  /\ out' = render(doc.value)
  /\ pc' = "rendered"
  /\ UNCHANGED <<call, ret, shape, items, stageItems, docIn, doc>>

Next ==
  \/ PushFrom
  \/ PushRun
  \/ PushCopy
  \/ PushAdd
  \/ PushWorkdir
  \/ PushEnv
  \/ PushExpose
  \/ PushCmd
  \/ PushEntrypoint
  \/ PushArg
  \/ PushLabel
  \/ CallStage
  \/ PushStage
  \/ CallContainerfile
  \/ CallRender

Spec == Init /\ [][Next]_vars

(***************************************************************************)
(* Direct calls of the two aggregators on arrays of Results.               *)
(***************************************************************************)
MaxDirectItems == 2

\* the sequences over S of length at most n
SeqsUpTo(S, n) == UNION {[1..k -> S] : k \in 0..n}

\* constructor Results a caller puts in an array: three Ok, two Err
InstructionResults ==
  {from(Str("nginx"), NoOptions), run(Str("npm ci")), expose(Num(8080), NoOptions),
   workdir(Str("")), copy(Arr(<<Str("a.txt"), Str("")>>), Str(""), NoOptions)}

\* stage Results a caller puts in an array: three Ok, one Err; the third
\* stage's FROM alias is not its name and its COPY names no alias at all
StageResults ==
  {stage(Str("builder"), <<from(Str("nginx"), NoOptions), run(Str("npm ci"))>>),
   stage(Str("runner"), <<from(Str("nginx"), NoOptions)>>),
   stage(Str("final"),
         <<from(Str("nginx"), WithOptions("as", Str("builder"))),
           copy(Str("a.txt"), Str("/dest/"), WithOptions("from", Str("nosuch")))>>),
   stage(Str("builder"), <<from(Str(""), NoOptions)>>)}

\* err([]): an Err a caller builds by hand with no error in its list
HandBuiltErr == Err(<<>>)

\* what a dynamically-typed caller may pass in place of the array
NonArrayValues == {Null, Undef, Str("items")}

\* arguments of prefixErrors: an error with a field, one with a nested
\* field, one with an empty field
PrefixInputs == {"instructions[0]", "stages[1]"}
ErrorInputs ==
  {validationError("image", "Expected string length greater or equal to 1", Str("")),
   validationError("instructions[2].src[1]", "Expected string", Null),
   validationError("", "must be a non-empty string", Num(1))}

DirectStageNames == {Str(""), Str("builder"), Null}

CallStageDirect ==
  \E name \in DirectStageNames,
     rs \in SeqsUpTo(InstructionResults \cup {HandBuiltErr}, MaxDirectItems) :
    Record("stage", <<name, Arr(rs)>>, stage(name, rs))

\* containerfile on an array of instruction Results, of stage Results, or of
\* both kinds mixed
CallContainerfileDirect ==
  \E rs \in SeqsUpTo(InstructionResults \cup StageResults \cup {HandBuiltErr},
                     MaxDirectItems) :
    Record("containerfile", <<Arr(rs)>>, containerfile(Arr(rs)))

CallContainerfileNonArray ==
  \E v \in NonArrayValues : Record("containerfile", <<v>>, containerfile(v))

\* render(document) on the document containerfile returned
CallRenderDirect ==
  /\ call # None
  /\ call.op = "containerfile"
  /\ IsOk(ret)
  /\ Record("render", <<ret.value>>, render(ret.value))

CallPrefixErrors ==
  \E prefix \in PrefixInputs, errors \in SeqsUpTo(ErrorInputs, MaxDirectItems) :
    Record("prefixErrors", <<Str(prefix), Arr(errors)>>, Arr(prefixErrors(prefix, errors)))

NextAggregators ==
  \/ CallStageDirect
  \/ CallContainerfileDirect
  \/ CallContainerfileNonArray
  \/ CallRenderDirect
  \/ CallPrefixErrors

SpecAggregators == InitCalls /\ [][NextAggregators]_vars

(***************************************************************************)
(* The whole public surface called directly: the constructors and the      *)
(* aggregators, as a dynamically-typed caller reaches them.                *)
(***************************************************************************)
NextApi ==
  \/ NextConstructors
  \/ NextAggregators

SpecApi == InitCalls /\ [][NextApi]_vars

(***************************************************************************)
(* Properties.                                                             *)
(***************************************************************************)
NonEmptyStr(v) == v.t = "string" /\ v.s # ""

\* the elements of a src argument after normalisation to a list
SrcElems(src) ==
  IF src.t = "string" THEN <<src>> ELSE IF src.t = "array" THEN src.a ELSE <<>>

\* a src argument as a whole is unusable: neither string nor array, or empty
SrcUnusable(src) == src.t \notin {"string", "array"} \/ src = Arr(<<>>)

\* the positions, in field-declaration order, of the fields of a call of a
\* multi-field constructor that are invalid on their own; the elements of
\* src take positions 0.., src as a whole position 0
InvalidPositions(c) ==
  LET o == c.args[Len(c.args)]
      optional(v, pos) == IF v # Undef /\ ~NonEmptyStr(v) THEN {pos} ELSE {}
      srcPositions(src) ==
        IF SrcUnusable(src) THEN {0}
        ELSE {i - 1 : i \in {j \in 1..Len(SrcElems(src)) : ~NonEmptyStr(SrcElems(src)[j])}}
  IN CASE c.op = "from" ->
            (IF c.args[1].t = "string" /\ c.args[1].s \in MatchingImageNames
             THEN {} ELSE {10})
            \cup optional(o.as, 11) \cup optional(o.platform, 12)
       [] c.op = "copy" ->
            srcPositions(c.args[1])
            \cup (IF NonEmptyStr(c.args[2]) THEN {} ELSE {10})
            \cup optional(o.from, 11) \cup optional(o.chown, 12) \cup optional(o.chmod, 13)
       [] c.op = "add" ->
            srcPositions(c.args[1])
            \cup (IF NonEmptyStr(c.args[2]) THEN {} ELSE {10})
            \cup optional(o.chown, 11) \cup optional(o.chmod, 12)
       [] c.op \in {"env", "label"} ->
            (IF NonEmptyStr(c.args[1]) THEN {} ELSE {10})
            \cup (IF c.args[2].t = "string" THEN {} ELSE {11})
       [] c.op = "arg" ->
            (IF NonEmptyStr(c.args[1]) THEN {} ELSE {10})
            \cup optional(o.defaultValue, 11)

\* the position of the field an error names, -1 for a field the call has not
FieldPosition(op, field) ==
  LET named ==
        CASE op = "from" -> <<"image", "as", "platform">>
          [] op = "copy" -> <<"dest", "from", "chown", "chmod">>
          [] op = "add" -> <<"dest", "chown", "chmod">>
          [] op \in {"env", "label"} -> <<"key", "value">>
          [] op = "arg" -> <<"name", "defaultValue">>
      hasSrc == op \in {"copy", "add"}
  IN IF \E k \in 1..Len(named) : named[k] = field
     THEN 9 + (CHOOSE k \in 1..Len(named) : named[k] = field)
     ELSE IF hasSrc /\ field = "src" THEN 0
     ELSE IF hasSrc /\ \E i \in 0..9 : field = Indexed("src", i)
     THEN CHOOSE i \in 0..9 : field = Indexed("src", i)
     ELSE -1

MultiFieldOps == {"from", "copy", "add", "env", "arg", "label"}

\* C1: a multi-field constructor (from, copy, add, env, arg, label) reports
\* every invalid field, never only the first: it returns Err exactly when
\* some field is invalid, every invalid field (each bad src element counted
\* on its own) has at least one error, every error names an invalid field,
\* and the errors come in field-declaration order.
C1_FullAccumulation ==
  (call # None /\ call.op \in MultiFieldOps) =>
    /\ IsResult(ret)
    /\ IsErr(ret) <=> InvalidPositions(call) # {}
    /\ IsErr(ret) =>
         /\ \A pos \in InvalidPositions(call) :
              \E i \in 1..Len(ret.error) : FieldPosition(call.op, ret.error[i].field) = pos
         /\ \A i \in 1..Len(ret.error) :
              FieldPosition(call.op, ret.error[i].field) \in InvalidPositions(call)
         /\ \A i, j \in 1..Len(ret.error) :
              i < j => FieldPosition(call.op, ret.error[i].field)
                         <= FieldPosition(call.op, ret.error[j].field)

\* copy with a bad src element, a bad dest and a bad option has answered
C1_Witness ==
  /\ call # None
  /\ call.op = "copy"
  /\ {1, 10, 12} \subseteq InvalidPositions(call)
  /\ IsErr(ret)
  /\ Len(ret.error) >= 3

\* the errors of the failed results of rs from position i on, in index order,
\* each field rewritten to `<container>[<position>].<field>`
RECURSIVE IndexPrefixed(_, _, _)
IndexPrefixed(container, rs, i) ==
  IF i > Len(rs) THEN <<>>
  ELSE (IF IsErr(rs[i])
        THEN [k \in 1..Len(rs[i].error) |->
                [rs[i].error[k] EXCEPT
                   !.field = container \o "[" \o ToString(i - 1) \o "]." \o @]]
        ELSE <<>>)
       \o IndexPrefixed(container, rs, i + 1)

\* the number of errors the failed results of rs carry
RECURSIVE ErrorCount(_)
ErrorCount(rs) ==
  IF rs = <<>> THEN 0
  ELSE (IF IsErr(Head(rs)) THEN Len(Head(rs).error) ELSE 0) + ErrorCount(Tail(rs))

C3_OkIffAllOk ==
  (pc \in {"assembled", "rendered"} /\ Len(docIn.a) > 0) =>
    /\ IsResult(doc)
    /\ IsOk(doc) <=> \A i \in 1..Len(docIn.a) : IsOk(docIn.a[i])
    /\ IsOk(doc) =>
         LET key == IF shape = "single" THEN "instructions" ELSE "stages"
         IN /\ DOMAIN doc.value = {key}
            /\ Len(doc.value[key]) = Len(docIn.a)
            /\ \A i \in 1..Len(docIn.a) : doc.value[key][i] = docIn.a[i].value

\* containerfile has answered Ok for two different instructions
C3_Witness ==
  /\ pc = "assembled"
  /\ shape = "single"
  /\ IsOk(doc)
  /\ Len(doc.value.instructions) >= 2
  /\ doc.value.instructions[1] # doc.value.instructions[2]

\* C4: stage(name, results) with an empty name and some failed results
\* returns Err whose first error is the name error (field `name`), followed
\* by every failed result's errors in index order with fields prefixed
\* `instructions[i].`; the error count is one plus the sum of the failed
\* results' error counts.  The combinator form of stage returns the same.
C4_StageAccumulates ==
  (pc = "staged" /\ call.args[1] = Str("")
     /\ \E i \in 1..Len(call.args[2].a) : IsErr(call.args[2].a[i])) =>
    /\ IsErr(ret)
    /\ ret.error[1].field = "name"
    /\ Len(ret.error) = 1 + ErrorCount(call.args[2].a)
    /\ SubSeq(ret.error, 2, Len(ret.error)) = IndexPrefixed("instructions", call.args[2].a, 1)
    /\ stageCombined(call.args[1], call.args[2]) = ret

\* stage has answered for an empty name, an Ok result and a failed result
C4_Witness ==
  /\ pc = "staged"
  /\ call.args[1] = Str("")
  /\ Len(call.args[2].a) = 2
  /\ IsOk(call.args[2].a[1])
  /\ IsErr(call.args[2].a[2])
  /\ IsErr(ret)
  /\ Len(ret.error) > 2

\* the document handed to render holds exactly one instruction
OneInstruction ==
  /\ pc = "rendered"
  /\ shape = "single"
  /\ Len(doc.value.instructions) = 1

\* C5: render returns a string, and never throws, for every document that
\* containerfile returned Ok from constructor results.
C5_RenderTotal ==
  pc = "rendered" => (~IsThrow(out) /\ out.t = "string")

\* C6: an EXPOSE instruction renders its port part as `<port>` when endPort
\* is null and as `<port>-<endPort>` when endPort is present (instructions
\* with a protocol set, so that the suffix is `/<protocol>` or, for tcp,
\* empty): expose({start: 5000, end: 5010}, {protocol: "udp"}) renders
\* `EXPOSE 5000-5010/udp`.
C6_ExposePortPart ==
  (OneInstruction /\ doc.value.instructions[1].type = "EXPOSE"
     /\ doc.value.instructions[1].protocol # Null) =>
    LET i == doc.value.instructions[1]
    IN out = Str("EXPOSE " \o ToStr(i.port)
                 \o (IF i.endPort = Null THEN "" ELSE "-" \o ToStr(i.endPort))
                 \o (IF i.protocol = Str("tcp") THEN "" ELSE "/" \o i.protocol.s))

\* C7: an EXPOSE line carries the suffix `/<protocol>` exactly when the
\* protocol is non-null and not "tcp" (single-port instructions): expose(8080)
\* renders `EXPOSE 8080`, and so does protocol "tcp".
C7_ExposeProtocolSuffix ==
  (OneInstruction /\ doc.value.instructions[1].type = "EXPOSE"
     /\ doc.value.instructions[1].endPort = Null) =>
    LET i == doc.value.instructions[1]
    IN out = Str("EXPOSE " \o ToStr(i.port)
                 \o (IF i.protocol \in {Null, Str("tcp")} THEN "" ELSE "/" \o i.protocol.s))

\* C8: a CMD or ENTRYPOINT instruction built from a shell-form string s
\* renders as `CMD s` / `ENTRYPOINT s` with s verbatim, one built from a list
\* as the keyword followed by the quoted array.
C8_CommandFormMirrored ==
  (OneInstruction /\ doc.value.instructions[1].type \in {"CMD", "ENTRYPOINT"}) =>
    LET i == doc.value.instructions[1]
    IN out = Str(i.type \o " "
                 \o (IF i.command.t = "string" THEN i.command.s
                     ELSE "[" \o Join([k \in 1..Len(i.command.a) |->
                                         "\"" \o i.command.a[k].s \o "\""], ", ") \o "]"))

\* strs separated by sep: nothing before the first, nothing after the last
RECURSIVE SeparatedBy(_, _)
SeparatedBy(strs, sep) ==
  IF Len(strs) = 1 THEN strs[1]
  ELSE SeparatedBy(SubSeq(strs, 1, Len(strs) - 1), sep) \o sep \o strs[Len(strs)]

\* the per-instruction lines of a list of instructions, one newline between
LinesOf(instructions) ==
  SeparatedBy([i \in 1..Len(instructions) |-> renderInstruction(instructions[i]).s], "\n")

\* C9: the text render returns for a single-stage document is its
\* instructions' lines in input order with exactly one newline between two
\* lines and none before the first or after the last; for a multi-stage
\* document it is the stages' blocks of lines, built the same way, with
\* exactly two newlines between two blocks and no stage header.
C9_JoinStructure ==
  (pc = "rendered" /\ ~IsThrow(out)) =>
    out = Str(IF shape = "single" THEN LinesOf(doc.value.instructions)
              ELSE SeparatedBy([i \in 1..Len(doc.value.stages) |->
                                  LinesOf(doc.value.stages[i].instructions)], "\n\n"))

\* render has answered for a stage of two instructions followed by a stage of
\* one
C9_Witness ==
  /\ pc = "rendered"
  /\ shape = "multi"
  /\ out = Str("FROM node:20 AS builder\nFROM node:20 AS builder\n\nFROM node:20 AS builder")

\* C10: every validator, for every input, returns Ok or an Err with a
\* non-empty error list; it never throws.
C10_ValidatorsTotal ==
  call # None => (IsResult(ret) /\ (IsErr(ret) => Len(ret.error) > 0))

\* v is an integral number from 0 to 65535
IsPortValue(v) == v.t = "number" /\ v.whole /\ v.n >= 0 /\ v.n <= 65535

\* every error of the list errors carries the field name field
AllOnField(errors, field) == \A i \in 1..Len(errors) : errors[i].field = field

\* C11: validatePort(v, field) returns Ok holding v unchanged exactly when v
\* is an integer with 0 <= v <= 65535, both bounds included; for every other
\* value it returns Err with a non-empty list whose errors all carry the
\* supplied field name.
C11_PortBounds ==
  (call # None /\ call.op = "validatePort") =>
    IF IsPortValue(call.args[1]) THEN ret = Ok(call.args[1])
    ELSE /\ IsErr(ret)
         /\ Len(ret.error) > 0
         /\ AllOnField(ret.error, call.args[2].s)

\* validatePort has accepted the upper bound 65535
C11_Witness ==
  /\ call # None
  /\ call.op = "validatePort"
  /\ call.args[1] = Num(65535)
  /\ IsOk(ret)

\* C12: validatePortRange({start, end}, field) reports start's errors under
\* `<field>.start` and end's under `<field>.end`, both when both are invalid;
\* when both are valid ports, start > end yields Err with exactly one error
\* on `<field>` whose message names both values, and start <= end (start =
\* end included) yields Ok({start, end}) with the values unchanged.
C12_PortRange ==
  (call # None /\ call.op = "validatePortRange" /\ call.args[1].t = "object") =>
    LET v == call.args[1]
        f == call.args[2].s
        onStart == SelectSeq(ret.error, LAMBDA e : e.field = f \o ".start")
        onEnd == SelectSeq(ret.error, LAMBDA e : e.field = f \o ".end")
    IN IF IsPortValue(v.start) /\ IsPortValue(v.end)
       THEN IF v.start.n > v.end.n
            THEN /\ IsErr(ret)
                 /\ Len(ret.error) = 1
                 /\ ret.error[1].field = f
                 /\ ret.error[1].message =
                      "invalid port range: start (" \o ToString(v.start.n)
                        \o ") must be <= end (" \o ToString(v.end.n) \o ")"
            ELSE ret = Ok([end |-> v.end, start |-> v.start])
       ELSE /\ IsErr(ret)
            /\ ret.error = onStart \o onEnd
            /\ (onStart # <<>>) <=> ~IsPortValue(v.start)
            /\ (onEnd # <<>>) <=> ~IsPortValue(v.end)

\* validatePortRange has rejected the reversed range {start: 100, end: 50}
C12_Witness ==
  /\ call # None
  /\ call.op = "validatePortRange"
  /\ call.args[1] = Obj(Num(100), Num(50))
  /\ IsErr(ret)
  /\ ret.error[1].message = "invalid port range: start (100) must be <= end (50)"

\* C13: every EXPOSE instruction expose returns Ok has port an integer in
\* 0..65535; for a bare-number input endPort is null; for a range input port
\* is start, endPort is end and port <= endPort <= 65535.
C13_ExposeValid ==
  (call # None /\ call.op = "expose" /\ IsOk(ret)) =>
    LET p == call.args[1]
        i == ret.value
    IN /\ i.type = "EXPOSE"
       /\ IsPortValue(i.port)
       /\ IF p.t = "number" THEN i.port = p /\ i.endPort = Null
          ELSE /\ p.t = "object"
               /\ i.port = p.start
               /\ i.endPort = p.end
               /\ IsPortValue(i.endPort)
               /\ i.port.n <= i.endPort.n

\* expose has accepted the range {start: 5000, end: 5010}
C13_Witness ==
  /\ call # None
  /\ call.op = "expose"
  /\ call.args[1] = Obj(Num(5000), Num(5010))
  /\ IsOk(ret)
  /\ ret.value.port = Num(5000)
  /\ ret.value.endPort = Num(5010)

\* C14: stage returns Ok only if name is a non-empty string, the list of
\* results is non-empty and every result is Ok; the Stage then holds that
\* name and the unwrapped values in input order, as many as the inputs, so
\* it has a non-empty name and at least one instruction.  The combinator
\* form of stage returns Ok in the same cases, with the same Stage.
C14_StageOkOnlyIfValid ==
  (call # None /\ call.op = "stage") =>
    LET name == call.args[1]
        rs == call.args[2].a
    IN /\ IsOk(stageCombined(name, call.args[2])) <=> IsOk(ret)
       /\ IsOk(ret) =>
            /\ name.t = "string" /\ name.s # ""
            /\ Len(rs) > 0
            /\ \A i \in 1..Len(rs) : IsOk(rs[i])
            /\ ret.value.name = name
            /\ Len(ret.value.instructions) = Len(rs)
            /\ \A i \in 1..Len(rs) : ret.value.instructions[i] = rs[i].value
            /\ stageCombined(name, call.args[2]) = ret

\* C15: an empty list is rejected with a list-level error: containerfile([])
\* returns Err with exactly one error, on field `items`; stage(name, [])
\* returns Err with an error on field `instructions`, the only error when
\* name is valid and accompanied by the `name` error when it is not.
C15_EmptyListRejected ==
  /\ (call # None /\ call.op = "containerfile" /\ call.args[1] = Arr(<<>>)) =>
       /\ IsErr(ret)
       /\ Len(ret.error) = 1
       /\ ret.error[1].field = "items"
  /\ (call # None /\ call.op = "stage" /\ call.args[2] = Arr(<<>>)) =>
       /\ IsErr(ret)
       /\ \E i \in 1..Len(ret.error) : ret.error[i].field = "instructions"
       /\ IF call.args[1].t = "string" /\ call.args[1].s # ""
          THEN Len(ret.error) = 1
          ELSE /\ Len(ret.error) = 2
               /\ \E i \in 1..Len(ret.error) : ret.error[i].field = "name"

\* stage has answered for an empty name and an empty list
C15_Witness ==
  /\ call # None
  /\ call.op = "stage"
  /\ call.args = <<Str(""), Arr(<<>>)>>
  /\ IsErr(ret)
  /\ Len(ret.error) = 2

\* the options a constructor takes
OptionNames(op) ==
  CASE op = "from" -> {"as", "platform"}
    [] op = "copy" -> {"from", "chown", "chmod"}
    [] op = "add" -> {"chown", "chmod"}
    [] op = "arg" -> {"defaultValue"}

\* C16: for the optional fields of from, copy, add and arg: an option not
\* supplied raises no error and is null in the Ok instruction; an option
\* supplied as a non-empty string raises no error and is held verbatim; an
\* option supplied as the empty string makes the constructor return Err
\* with an error whose field is the option's name.
C16_OptionalFields ==
  (call # None /\ call.op \in {"from", "copy", "add", "arg"}) =>
    LET o == call.args[Len(call.args)]
        errorOn(n) == IsErr(ret) /\ \E i \in 1..Len(ret.error) : ret.error[i].field = n
    IN \A n \in OptionNames(call.op) :
         /\ o[n] = Undef => (~errorOn(n) /\ (IsOk(ret) => ret.value[n] = Null))
         /\ NonEmptyStr(o[n]) => (~errorOn(n) /\ (IsOk(ret) => ret.value[n] = o[n]))
         /\ o[n] = Str("") => errorOn(n)

\* from has rejected an empty `as` given with a valid image
C16_Witness ==
  /\ call # None
  /\ call.op = "from"
  /\ call.args[1] = Str("nginx")
  /\ call.args[2].as = Str("")
  /\ call.args[2].platform = Str("linux/amd64")
  /\ IsErr(ret)
  /\ Len(ret.error) = 1
  /\ ret.error[1].field = "as"

\* the fields `<field>[i]` of the elements of elems, from position i on,
\* that are not non-empty strings, in index order
RECURSIVE BadElementFields(_, _, _)
BadElementFields(field, elems, i) ==
  IF i > Len(elems) THEN <<>>
  ELSE (IF NonEmptyStr(elems[i]) THEN <<>>
        ELSE <<field \o "[" \o ToString(i - 1) \o "]">>)
       \o BadElementFields(field, elems, i + 1)

\* the fields of the errors of a result, in order; none for an Ok
ErrorFields(r) == IF IsErr(r) THEN [i \in 1..Len(r.error) |-> r.error[i].field] ELSE <<>>

\* C17: copy and add normalise src before validating it: a single string
\* gives an Ok instruction whose src is a one-element list and is reported
\* under `src[0]` when invalid; of a list every bad element is reported
\* once under `src[i]` with its own index, in index order; an empty list is
\* rejected with one error on `src`.
C17_SrcNormalised ==
  (call # None /\ call.op \in {"copy", "add"} /\ call.args[1].t \in {"string", "array"}) =>
    LET src == call.args[1]
        onSrc == SelectSeq(ErrorFields(ret),
                           LAMBDA f : f = "src" \/ \E i \in 0..9 : f = Indexed("src", i))
    IN /\ onSrc = IF src = Arr(<<>>) THEN <<"src">>
                  ELSE BadElementFields("src", SrcElems(src), 1)
       /\ IsOk(ret) => ret.value.src = Arr(SrcElems(src))

\* copy(["a.txt", ""], "/dest/") has failed with one error, on `src[1]`
C17_Witness ==
  /\ call # None
  /\ call.op = "copy"
  /\ call.args = <<Arr(<<Str("a.txt"), Str("")>>), Str("/dest/"), NoOptions>>
  /\ IsErr(ret)
  /\ Len(ret.error) = 1
  /\ ret.error[1].field = "src[1]"

\* C18: validateStringArray(values, field) returns Err for an empty array;
\* for a non-empty array it returns exactly one error per element that is
\* not a non-empty string, on `<field>[i]` for the element's index i and in
\* index order, and Ok when no element is bad.
C18_StringArray ==
  (call # None /\ call.op = "validateStringArray") =>
    LET v == call.args[1].a
        f == call.args[2].s
    IN IF v = <<>> THEN IsErr(ret) /\ Len(ret.error) > 0
       ELSE /\ IsOk(ret) <=> BadElementFields(f, v, 1) = <<>>
            /\ ErrorFields(ret) = BadElementFields(f, v, 1)

\* validateStringArray(["", "", ""]) has answered with three errors
C18_Witness ==
  /\ call # None
  /\ call.op = "validateStringArray"
  /\ call.args[1] = Arr(<<Str(""), Str(""), Str("")>>)
  /\ IsErr(ret)
  /\ Len(ret.error) = 3
  /\ ret.error[3].field = call.args[2].s \o "[2]"

\* C19: env(key, value) and label(key, value) return Ok exactly when key is
\* a non-empty string and value is a string, the empty string included; a
\* value that is not a string is rejected with an error on field `value`;
\* an ENV instruction with an empty value renders as `ENV <key>=`.
C19_EnvLabelValues ==
  /\ (call # None /\ call.op \in {"env", "label"}) =>
       /\ IsOk(ret) <=> (NonEmptyStr(call.args[1]) /\ call.args[2].t = "string")
       /\ call.args[2].t # "string" =>
            (IsErr(ret) /\ \E i \in 1..Len(ret.error) : ret.error[i].field = "value")
  /\ (call # None /\ call.op = "renderInstruction" /\ call.args[1].type = "ENV"
        /\ call.args[1].value = Str("")) =>
       ret = Str("ENV " \o call.args[1].key.s \o "=")

\* the instruction of env("NODE_ENV", "") has been rendered
C19_Witness ==
  /\ call # None
  /\ call.op = "renderInstruction"
  /\ call.args[1] = [key |-> Str("NODE_ENV"), type |-> "ENV", value |-> Str("")]
  /\ ret = Str("ENV NODE_ENV=")

\* C20: a COPY instruction renders as `COPY`, then the flags --from, --chown
\* and --chmod in this order, each only when its field is non-null, then the
\* sources in input order separated by single spaces, then the destination;
\* ADD renders the same way without --from.
C20_CopyAddFlags ==
  (call # None /\ call.op = "renderInstruction" /\ call.args[1].type \in {"COPY", "ADD"}) =>
    LET i == call.args[1]
        flag(n) == IF i[n] = Null THEN "" ELSE " --" \o n \o "=" \o i[n].s
    IN ret = Str(i.type
                 \o (IF i.type = "COPY" THEN flag("from") ELSE "")
                 \o flag("chown") \o flag("chmod")
                 \o " " \o SeparatedBy([k \in 1..Len(i.src.a) |-> i.src.a[k].s], " ")
                 \o " " \o i.dest.s)

\* a COPY with the three options and two sources has been rendered
C20_Witness ==
  /\ call # None
  /\ call.op = "renderInstruction"
  /\ ret = Str("COPY --from=builder --chown=node:node --chmod=644 a.txt b.txt /dest/")

\* the elements of a list of strings, each in double quotes, separated by a
\* comma and one space, in square brackets
QuotedList(elems) ==
  "[" \o SeparatedBy([k \in 1..Len(elems) |-> "\"" \o elems[k].s \o "\""], ", ") \o "]"

\* C21: run(s) with a non-empty string s yields an instruction whose command
\* is s, rendered `RUN s`; run(list) with a non-empty list of non-empty
\* strings yields an instruction whose command is that list in order,
\* rendered `RUN ["a", "b", ...]`; neither form is coerced into the other.
C21_RunFormKept ==
  /\ (call # None /\ call.op = "run") =>
       LET c == call.args[1]
       IN /\ NonEmptyStr(c) => ret = Ok([command |-> c, type |-> "RUN"])
          /\ (c.t = "array" /\ c.a # <<>> /\ \A k \in 1..Len(c.a) : NonEmptyStr(c.a[k])) =>
               ret = Ok([command |-> c, type |-> "RUN"])
  /\ (call # None /\ call.op = "renderInstruction" /\ call.args[1].type = "RUN") =>
       LET c == call.args[1].command
       IN ret = Str("RUN " \o (IF c.t = "string" THEN c.s ELSE QuotedList(c.a)))

\* the instruction of run("npm start") has been rendered
C21_Witness ==
  /\ call # None
  /\ call.op = "renderInstruction"
  /\ call.args[1] = [command |-> Str("npm start"), type |-> "RUN"]
  /\ ret = Str("RUN npm start")

\* the sample image names made of lowercase letters and digits only
LowercaseAlphanumeric == {"nginx", "node20"}

\* C22: constructors accept every valid input and echo it: from with a
\* lowercase alphanumeric image returns Ok of type FROM with that image, and
\* the document of that one instruction renders as `FROM <image>`; workdir
\* with a non-empty path returns Ok holding the path; env with a non-empty
\* key and any string value returns Ok holding both; expose with an integer
\* port in 0..65535 returns Ok holding the port.
C22_ValidInputsEchoed ==
  /\ (call # None /\ call.op = "from" /\ call.args[1].t = "string"
        /\ call.args[1].s \in LowercaseAlphanumeric /\ call.args[2] = NoOptions) =>
       /\ ret = Ok([as |-> Null, image |-> call.args[1], platform |-> Null, type |-> "FROM"])
       /\ IsOk(containerfile(Arr(<<ret>>)))
       /\ render(containerfile(Arr(<<ret>>)).value) = Str("FROM " \o call.args[1].s)
  /\ (call # None /\ call.op = "workdir" /\ NonEmptyStr(call.args[1])) =>
       ret = Ok([path |-> call.args[1], type |-> "WORKDIR"])
  /\ (call # None /\ call.op = "env" /\ NonEmptyStr(call.args[1])
        /\ call.args[2].t = "string") =>
       ret = Ok([key |-> call.args[1], type |-> "ENV", value |-> call.args[2]])
  /\ (call # None /\ call.op = "expose" /\ IsPortValue(call.args[1])) =>
       /\ IsOk(ret)
       /\ ret.value.type = "EXPOSE"
       /\ ret.value.port = call.args[1]

\* expose has accepted port 0
C22_Witness ==
  /\ call # None
  /\ call.op = "expose"
  /\ call.args[1] = Num(0)
  /\ IsOk(ret)
  /\ ret.value.port = Num(0)

\* the multi-stage document d with every stage renamed to name
WithStageNames(d, name) ==
  [stages |-> [i \in 1..Len(d.stages) |-> [d.stages[i] EXCEPT !.name = name]]]

\* names to give the stages of a document in place of their own
AltStageNames == {Str("x"), Str("builder"), Str("final")}

\* C23: the stage name and the FROM alias are not reconciled: containerfile
\* returns Ok, holding the stages as given, for every array of Ok stages,
\* whatever the `as` alias of a stage's FROM and whether or not a COPY
\* `from` names an alias of the document; and the rendered text of a
\* multi-stage document does not depend on the stage names: the document
\* with every stage renamed renders to the same text.
C23_StageNameUnreconciled ==
  /\ (call # None /\ call.op = "containerfile" /\ call.args[1].t = "array"
        /\ call.args[1].a # <<>>
        /\ \A i \in 1..Len(call.args[1].a) :
             IsOk(call.args[1].a[i]) /\ "name" \in DOMAIN call.args[1].a[i].value) =>
       ret = Ok([stages |-> [i \in 1..Len(call.args[1].a) |-> call.args[1].a[i].value]])
  /\ (call # None /\ call.op = "render" /\ "stages" \in DOMAIN call.args[1]
        /\ \A i \in 1..Len(call.args[1].stages) :
             "name" \in DOMAIN call.args[1].stages[i]) =>
       \A name \in AltStageNames : render(WithStageNames(call.args[1], name)) = ret

\* a document has been rendered whose first stage, named final, starts FROM
\* an image aliased builder and copies from an alias no stage declares
C23_Witness ==
  /\ call # None
  /\ call.op = "render"
  /\ "stages" \in DOMAIN call.args[1]
  /\ Len(call.args[1].stages) = 2
  /\ call.args[1].stages[1].name = Str("final")
  /\ call.args[1].stages[1].instructions[1].as = Str("builder")
  /\ call.args[1].stages[1].instructions[2].from = Str("nosuch")
  /\ "name" \in DOMAIN call.args[1].stages[2]
  /\ call.args[1].stages[2].name = Str("runner")
  /\ ret = Str("FROM nginx AS builder\nCOPY --from=nosuch a.txt /dest/\n\nFROM nginx")

ErrorsOf(r) == IF IsErr(r) THEN r.error ELSE <<>>

\* C25: when the array handed to containerfile holds an Ok element, the
\* first Ok element in index order decides the prefix of every failed
\* element, those before it and the one at index 0 included: the returned
\* errors are the failed elements' errors, in input order, under
\* `stages[i]` when that first Ok element is a stage and under
\* `instructions[i]` when it is an instruction.
C25_FirstOkDecidesPrefix ==
  (call # None /\ call.op = "containerfile" /\ call.args[1].t = "array"
     /\ \E i \in 1..Len(call.args[1].a) : IsOk(call.args[1].a[i])) =>
    LET rs == call.args[1].a
        first == CHOOSE i \in 1..Len(rs) :
                   IsOk(rs[i]) /\ \A j \in 1..(i - 1) : IsErr(rs[j])
        container == IF "name" \in DOMAIN rs[first].value THEN "stages"
                     ELSE "instructions"
    IN ErrorsOf(ret) = IndexPrefixed(container, rs, 1)

\* containerfile has answered for a failed stage followed by an Ok stage:
\* the error of the element at index 0 is under `stages[0]`
C25_Witness ==
  /\ call # None
  /\ call.op = "containerfile"
  /\ call.args[1].t = "array"
  /\ Len(call.args[1].a) = 2
  /\ IsErr(call.args[1].a[1])
  /\ IsOk(call.args[1].a[2])
  /\ "name" \in DOMAIN call.args[1].a[2].value
  /\ IsErr(ret)
  /\ ret.error[1].field = "stages[0].instructions[0].image"

\* the eleven constructors
ConstructorOps ==
  {"from", "run", "copy", "add", "workdir", "env", "expose", "cmd", "entrypoint",
   "arg", "label"}

\* C26: no constructor and no call of containerfile throws: each returns a
\* Result.  expose with a port that is null or whose type is neither number
\* nor object returns Err with exactly one error, on field `port`; copy and
\* add with a src that is neither a string nor an array return Err with an
\* error on field `src`; containerfile with an argument that is not an
\* array returns Err with exactly one error, on field `items`.
C26_WrongTypeIsErr ==
  /\ (call # None /\ call.op \in ConstructorOps \cup {"containerfile"}) => IsResult(ret)
  /\ (call # None /\ call.op = "expose"
        /\ (call.args[1] = Null \/ TypeOf(call.args[1]) \notin {"number", "object"})) =>
       /\ IsErr(ret)
       /\ Len(ret.error) = 1
       /\ ret.error[1].field = "port"
  /\ (call # None /\ call.op \in {"copy", "add"}
        /\ call.args[1].t \notin {"string", "array"}) =>
       /\ IsErr(ret)
       /\ \E k \in 1..Len(ret.error) : ret.error[k].field = "src"
  /\ (call # None /\ call.op = "containerfile" /\ call.args[1].t # "array") =>
       /\ IsErr(ret)
       /\ Len(ret.error) = 1
       /\ ret.error[1].field = "items"

\* expose has answered for the port null
C26_Witness ==
  /\ call # None
  /\ call.op = "expose"
  /\ call.args[1] = Null
  /\ IsErr(ret)
  /\ ret.error[1].field = "port"

\* C27: every EXPOSE instruction expose returns Ok has the protocol tcp, udp
\* or sctp, or null, whatever protocol value the caller passed.
C27_ProtocolSupported ==
  (call # None /\ call.op = "expose" /\ IsOk(ret)) =>
    ret.value.protocol \in {Str("tcp"), Str("udp"), Str("sctp"), Null}

\* C28: an Ok answer of containerfile or stage for an array of Results holds
\* exactly one instruction (or stage) per element of the array and at least
\* one: no element of the array is left out, an Err with an empty error
\* list included.
C28_NoElementOmitted ==
  /\ (call # None /\ call.op = "containerfile" /\ call.args[1].t = "array" /\ IsOk(ret)) =>
       LET held == IF "instructions" \in DOMAIN ret.value THEN ret.value.instructions
                   ELSE ret.value.stages
       IN /\ Len(held) = Len(call.args[1].a)
          /\ Len(held) > 0
          /\ \A i \in 1..Len(call.args[1].a) : IsOk(call.args[1].a[i])
  /\ (call # None /\ call.op = "stage" /\ IsOk(ret)) =>
       /\ Len(ret.value.instructions) = Len(call.args[2].a)
       /\ Len(ret.value.instructions) > 0
       /\ \A i \in 1..Len(call.args[2].a) : IsOk(call.args[2].a[i])

\* the eleven kind tags
KindTags ==
  {"FROM", "RUN", "COPY", "ADD", "WORKDIR", "ENV", "EXPOSE", "CMD", "ENTRYPOINT",
   "ARG", "LABEL"}

\* C29: a document containerfile returns Ok has exactly one of the keys
\* instructions and stages; under instructions every element carries one of
\* the eleven kind tags; under stages every element has a name and an
\* instruction list.
C29_DocumentHomogeneous ==
  (call # None /\ call.op = "containerfile" /\ IsOk(ret)) =>
    /\ DOMAIN ret.value \in {{"instructions"}, {"stages"}}
    /\ "instructions" \in DOMAIN ret.value =>
         \A i \in 1..Len(ret.value.instructions) :
           /\ "type" \in DOMAIN ret.value.instructions[i]
           /\ ret.value.instructions[i].type \in KindTags
    /\ "stages" \in DOMAIN ret.value =>
         \A i \in 1..Len(ret.value.stages) :
           {"name", "instructions"} \subseteq DOMAIN ret.value.stages[i]

====
